---- MODULE Spec2Model ----
(***************************************************************************)
(* Beryl: 64-bit identifiers ("Crystals") and the Generator that issues    *)
(* them.  The model follows src/src/crystal.rs (the codec) and             *)
(* src/src/generator.rs (the Generator).  src/src/lib.rs is the earlier    *)
(* single-file revision (12/10/42-bit layout) with the same Generator.     *)
(*                                                                         *)
(* A u64 is modelled as the set of its one-bits (a subset of 0..63), so    *)
(* that shifts, masks and ors are computed bit for bit and keep their      *)
(* 64-bit width.  The u16 fields (id, count) are numbers below 2^16.       *)
(*                                                                         *)
(* now(epoch) is sampled anew at every use (generator.rs:59, 95, 101), so  *)
(* a call is a sequence of steps between which the clock may tick.  The    *)
(* variables call, prev and calls are history: they record the state and   *)
(* the clock readings of the last two calls and are never read by the      *)
(* operations.  Clock readings stay within the 42-bit timestamp field,     *)
(* except in SpecWide.                                                     *)
(*                                                                         *)
(* Specifications: Spec (one Generator, epoch at the reference point),     *)
(* SpecLive (Spec with fair clock and thread), SpecTwo (two Generators),   *)
(* SpecEpoch (the owner chooses and reassigns the epoch; now(epoch) panics *)
(* when the epoch is later than the clock), SpecTry (try_generate only,    *)
(* with the Crystals returned per millisecond counted in issued),          *)
(* SpecCodec (the codec's functions applied to bounded inputs) and         *)
(* SpecWide (Spec started at the last millisecond the timestamp field      *)
(* holds).                                                                 *)
(***************************************************************************)
EXTENDS Integers, FiniteSets, Sequences, TLC

\* ------------------------------------------------------------------ bounds
\* The clock ticks at most MaxTicks times after the initial state.
MaxTicks == 2

\* ------------------------------------------------------- program constants
\* generator.rs:24, crystal.rs:31   id <= 0x3FFF
MaxGeneratorId == 16383
\* crystal.rs:34   counter <= 0xFF
MaxCounter == 255
\* generator.rs:59,70,83   count == 0x3FF ; generator.rs:96   & 0x3FF
Saturated == 1023
\* generator.rs:28   count: u16::MAX
U16Max == 65535
\* crystal.rs:47   generator << 50
GeneratorShift == 50
\* crystal.rs:47   counter << 42
CounterShift == 42

\* ------------------------------------------------------------ u64 as bits
U64Positions == 0..63

\* `n as u64` for a u16 n: the set of the one-bits of n.
RECURSIVE BitsFrom(_, _)
BitsFrom(n, k) ==
    IF n = 0 THEN {}
    ELSE (IF n % 2 = 1 THEN {k} ELSE {}) \cup BitsFrom(n \div 2, k + 1)

as_u64(n) == BitsFrom(n, 0)

RECURSIVE Pow2(_)
Pow2(k) == IF k = 0 THEN 1 ELSE 2 * Pow2(k - 1)

\* The number a bit set below 2^16 stands for (`try_into::<u16>().unwrap()`).
RECURSIVE to_u16(_)
to_u16(bits) ==
    IF bits = {} THEN 0
    ELSE LET b == CHOOSE x \in bits : TRUE
         IN  Pow2(b) + to_u16(bits \ {b})

\* x << k and x >> k on 64 bits.
Shl(bits, k) == {b + k : b \in bits} \cap U64Positions
Shr(bits, k) == {b - k : b \in {x \in bits : x >= k}}

\* x + 1 on 64 bits (wrapping).
Inc(bits) ==
    LET zeros == U64Positions \ bits
    IN  IF zeros = {} THEN {}
        ELSE LET k == CHOOSE z \in zeros : \A y \in zeros : z <= y
             IN  {b \in bits : b > k} \cup {k}

\* x - 1 on 64 bits (wrapping).
Dec(bits) ==
    IF bits = {} THEN U64Positions
    ELSE LET k == CHOOSE o \in bits : \A y \in bits : o <= y
         IN  {b \in bits : b > k} \cup {z \in U64Positions : z < k}

\* x - n on 64 bits, for a small n.
RECURSIVE SubN(_, _)
SubN(bits, n) == IF n = 0 THEN bits ELSE SubN(Dec(bits), n - 1)

\* Unsigned comparison of two u64.
ULeq(a, b) ==
    \/ a = b
    \/ LET diff == (a \ b) \cup (b \ a)
           top  == CHOOSE d \in diff : \A e \in diff : e <= d
       IN  top \in b

ULess(a, b) == a # b /\ ULeq(a, b)

\* ------------------------------------------------------------------ codec
\* crystal.rs:60   0x3FC0000000000
CounterMask == 42..49
\* crystal.rs:37,66   0x3FFFFFFFFFF
TimestampMask == 0..41

\* Mutant: the generator shifted by 48 instead of 50, into the counter's bits.
from_parts_unchecked_shift48(g, c, t) ==
    Shl(as_u64(g), 48) \cup Shl(as_u64(c), CounterShift) \cup t

\* Mutant: the counter shifted by 40 instead of 42, into the timestamp's bits.
from_parts_unchecked_shift40(g, c, t) ==
    Shl(as_u64(g), GeneratorShift) \cup Shl(as_u64(c), 40) \cup t

\* Crystal::from_parts_unchecked
from_parts_unchecked(g, c, t) ==
    Shl(as_u64(g), GeneratorShift) \cup Shl(as_u64(c), CounterShift) \cup t

\* Mutant: the counter read without its mask.
counter_unmasked(cry) == to_u16(Shr(cry, CounterShift))

\* Crystal::generator, Crystal::counter, Crystal::timestamp
generator(cry) == to_u16(Shr(cry, GeneratorShift))
counter(cry) == to_u16(Shr(cry \cap CounterMask, CounterShift))
timestamp(cry) == cry \cap TimestampMask

\* Results of the fallible operations.
NoCrystal == {}
Ok(cry) == [kind |-> "Ok", cry |-> cry, err |-> "-"]
Err(e) == [kind |-> "Err", cry |-> NoCrystal, err |-> e]
NoResult == [kind |-> "None", cry |-> NoCrystal, err |-> "-"]

\* Mutant: the counter checked before the generator.
from_parts_counter_first(g, c, t) ==
    IF ~(c <= MaxCounter) THEN Err("PartOutOfBounds(Counter)")
    ELSE IF ~(g <= MaxGeneratorId) THEN Err("PartOutOfBounds(GeneratorId)")
    ELSE IF ~(t \subseteq TimestampMask) THEN Err("PartOutOfBounds(Timestamp)")
    ELSE Ok(from_parts_unchecked(g, c, t))

\* Crystal::from_parts: the checked constructor.
from_parts(g, c, t) ==
    IF ~(g <= MaxGeneratorId) THEN Err("PartOutOfBounds(GeneratorId)")
    ELSE IF ~(c <= MaxCounter) THEN Err("PartOutOfBounds(Counter)")
    ELSE IF ~(t \subseteq TimestampMask) THEN Err("PartOutOfBounds(Timestamp)")
    ELSE Ok(from_parts_unchecked(g, c, t))

\* From<u64> for Crystal and From<Crystal> for u64 (crystal.rs:80-92) wrap and
\* unwrap the raw value.
Crystal_from_u64(bits) == bits
u64_from(cry) == cry

\* An i64 is its sign and the bits of its magnitude.  transmute keeps the 64
\* bits, which an i64 reads in two's complement: with bit 63 set the value is
\* -(2^64 - x), and 2^64 - x is the complement of x plus one.
i64_from(cry) ==
    IF 63 \in cry
    THEN [neg |-> TRUE, mag |-> Inc(U64Positions \ cry)]
    ELSE [neg |-> FALSE, mag |-> cry]

\* Mutant: a negative i64 converted to 0 instead of reinterpreted.
Crystal_from_i64_clamped(raw) == IF raw.neg THEN {} ELSE raw.mag

\* From<i64> for Crystal (crystal.rs:97-104)
Crystal_from_i64(raw) ==
    IF raw.neg THEN Inc(U64Positions \ raw.mag) ELSE raw.mag


\* ------------------------------------------------------------------ state
\* Two Generators exist; each is owned by one caller that issues one call at
\* a time (generator.rs: every operation takes &mut self).
Gens == {1, 2}

\* The ids callers pass to Generator::new: the smallest and the largest valid id
\* and the first invalid one.
IdInputs == {0, MaxGeneratorId, MaxGeneratorId + 1}

\* The clock reads ClockStart milliseconds since the epoch in the initial state.
ClockStart == 5

NoReading == {-1}

VARIABLES
    clock,           \* SystemTime::now(): u64 milliseconds since the reference point
    ticks,           \* how often the clock has advanced
    pc,              \* per Generator: where its caller is
    id,              \* Generator.id
    epoch,           \* Generator.epoch: milliseconds after the reference point
    count,           \* Generator.count
    last_timestamp,  \* Generator.last_timestamp
    ret,             \* the result of the last finished call ("None" during a call)
    newResult,       \* the last Generator::new: its result and its arguments
    call,            \* history: the call in progress or last finished
    prev,            \* history: the call finished before that one
    calls,           \* history: finished calls since construction, capped at CallsCap
    issued,          \* history: the Crystals try_generate returned in one millisecond
    codec            \* the codec's functions applied to a triple or a raw value

vars == <<clock, ticks, pc, id, epoch, count, last_timestamp, ret, newResult,
          call, prev, calls, issued, codec>>

\* The history counts the finished calls of a Generator up to CallsCap and
\* remembers the operation of a call only below it.
CallsCap == 3

NoCall == [op |-> "-", count |-> 0, last |-> NoReading, first |-> NoReading,
           sampled |-> NoReading, packed |-> NoReading]
NoPrev == [op |-> "-", first |-> NoReading, last |-> NoReading, ret |-> NoResult]

\* No Generator::new yet; the codec not in use.
NoNew == [res |-> "-", id |-> 0, epoch |-> 0]
NoParts == [generator |-> -1, counter |-> -1, timestamp |-> NoReading]
NoI64 == [neg |-> FALSE, mag |-> NoReading]
CodecIdle == [g |-> 0, c |-> 0, t |-> {}, b |-> {}, made |-> NoResult,
              parts |-> NoParts, cry |-> NoResult, signed |-> NoI64,
              back |-> NoResult]

\* History: the number n of Crystals try_generate has returned in the
\* millisecond `at`, counted up to IssuedCap.  It is kept where it starts
\* as NoIssued and not where it starts as Unwatched.
IssuedCap == MaxCounter + 2
NoIssued == [at |-> NoReading, n |-> 0]
Unwatched == [at |-> NoReading, n |-> -1]

\* No Generator constructed yet, with the clock reading c.
GenInitAt(c) ==
    /\ clock = c
    /\ ticks = 0
    /\ pc = [g \in Gens |-> "none"]
    /\ id = [g \in Gens |-> 0]
    /\ epoch = [g \in Gens |-> 0]
    /\ count = [g \in Gens |-> 0]
    /\ last_timestamp = [g \in Gens |-> {}]
    /\ ret = [g \in Gens |-> NoResult]
    /\ newResult = [g \in Gens |-> NoNew]
    /\ call = [g \in Gens |-> NoCall]
    /\ prev = [g \in Gens |-> NoPrev]
    /\ calls = [g \in Gens |-> 0]

GenInit == GenInitAt(as_u64(ClockStart))

Init ==
    /\ GenInit
    /\ issued = [g \in Gens |-> Unwatched]
    /\ codec = CodecIdle

\* fn now(epoch), generator.rs:105-112.  `duration_since(epoch)` is an Err when
\* the epoch is later than the system clock, and `.unwrap()` panics on it;
\* otherwise now is the milliseconds from the epoch to the system clock.
now_panics(e) == ULess(clock, as_u64(e))
now(e) == SubN(clock, e)

\* The system clock advances by a millisecond.
Tick ==
    /\ ticks < MaxTicks
    /\ clock' = Inc(clock)
    /\ ticks' = ticks + 1
    /\ UNCHANGED <<pc, id, epoch, count, last_timestamp, ret, newResult, call,
                   prev, calls, issued, codec>>

\* Mutant: `<` for `<=` in the check of the id.
valid_id_lt(i) == i < MaxGeneratorId

\* `id <= 0x3FFF` (generator.rs:24)
valid_id(i) == i <= MaxGeneratorId

\* Generator::new(id, epoch).  Generators are constructed in the initial
\* millisecond; every later one is reached by Tick.  The fields are evaluated
\* in order: the id check returns the error before now(epoch) is called.
new(g, i, e) ==
    /\ pc[g] = "none"
    /\ ticks = 0
    /\ IF ~valid_id(i)
       THEN /\ newResult' = [newResult EXCEPT ![g] =
                               [res |-> "GeneratorIdOutOfBounds", id |-> i, epoch |-> e]]
            /\ UNCHANGED <<id, epoch, count, last_timestamp, pc>>
       ELSE IF now_panics(e)
       THEN /\ newResult' = [newResult EXCEPT ![g] =
                               [res |-> "panicked", id |-> i, epoch |-> e]]
            /\ UNCHANGED <<id, epoch, count, last_timestamp, pc>>
       ELSE /\ id' = [id EXCEPT ![g] = i]
            /\ epoch' = [epoch EXCEPT ![g] = e]
            /\ count' = [count EXCEPT ![g] = U16Max]
            /\ last_timestamp' = [last_timestamp EXCEPT ![g] = now(e)]
            /\ pc' = [pc EXCEPT ![g] = "idle"]
            /\ newResult' = [newResult EXCEPT ![g] =
                               [res |-> "Ok", id |-> i, epoch |-> e]]
    /\ UNCHANGED <<clock, ticks, ret, call, prev, calls, issued, codec>>

\* The owner assigns the public field `epoch` (generator.rs:14) between calls.
set_epoch(g, e) ==
    /\ pc[g] = "idle"
    /\ e # epoch[g]
    /\ epoch' = [epoch EXCEPT ![g] = e]
    /\ UNCHANGED <<clock, ticks, pc, id, count, last_timestamp, ret, newResult,
                   call, prev, calls, issued, codec>>

\* Mutant: the condition never holds, so nothing waits.
exhausted_never(c, last, t) == FALSE

\* Mutant: `||` for `&&`.
exhausted_or(c, last, t) == c = Saturated \/ last = t

\* Mutant: `<=` for `==` in the comparison with the clock.
exhausted_leq(c, last, t) == c = Saturated /\ ULeq(last, t)

\* `self.count == 0x3FF && self.last_timestamp == now(self.epoch)`
\* (generator.rs:59, 70, 83)
exhausted(c, last, t) == c = Saturated /\ last = t

\* Mutant: the counter is not reset in a new millisecond.
next_count_no_reset(c, last, t) ==
    IF last = t THEN ((c + 1) % (U16Max + 1)) % (Saturated + 1) ELSE c

\* The counter update of generate_unchecked (generator.rs:95-99) on reading t.
next_count(c, last, t) ==
    IF last = t THEN ((c + 1) % (U16Max + 1)) % (Saturated + 1) ELSE 0

\* What now(self.epoch) returns to g, if it returns.
reading(g) == IF now_panics(epoch[g]) THEN NoReading ELSE now(epoch[g])

\* History: a call of operation o starts, with s the reading its first step
\* hands to generate_unchecked's comparison (if any); the call before it
\* becomes prev.
Begin(g, o, s) ==
    /\ call' = [call EXCEPT ![g] =
                  [op |-> o, count |-> count[g], last |-> last_timestamp[g],
                   first |-> reading(g), sampled |-> s, packed |-> NoReading]]
    /\ prev' = [prev EXCEPT ![g] =
                  IF calls[g] = 0 THEN NoPrev
                  ELSE [op |-> IF calls[g] < CallsCap THEN call[g].op ELSE "-",
                        first |-> call[g].first,
                        last |-> IF call[g].packed = NoReading
                                 THEN call[g].first ELSE call[g].packed,
                        ret |-> ret[g]]]

Finished(g) == calls' = [calls EXCEPT ![g] = IF @ < CallsCap THEN @ + 1 ELSE @]

\* The condition of try_generate and of the loops calls now only when the
\* counter is saturated (`&&` short-circuits), and panics when now does.
check_panics(c, e) == c = Saturated /\ now_panics(e)

\* Generator::try_generate (generator.rs:58-64), up to the call of
\* generate_unchecked.
try_generate(g) ==
    /\ pc[g] = "idle"
    /\ Begin(g, "try_generate", NoReading)
    /\ IF check_panics(count[g], epoch[g])
       THEN /\ ret' = [ret EXCEPT ![g] = NoResult]
            /\ pc' = [pc EXCEPT ![g] = "panicked"]
            /\ UNCHANGED calls
       ELSE IF exhausted(count[g], last_timestamp[g], now(epoch[g]))
       THEN /\ ret' = [ret EXCEPT ![g] = Err("GeneratorExhausted")]
            /\ Finished(g)
            /\ UNCHANGED pc
       ELSE /\ ret' = [ret EXCEPT ![g] = NoResult]
            /\ pc' = [pc EXCEPT ![g] = "compare"]
            /\ UNCHANGED calls
    /\ UNCHANGED <<clock, ticks, id, epoch, count, last_timestamp, newResult,
                   issued, codec>>

\* The first evaluation of the loop condition of a blocking operation.
EnterLoop(g, o, loop) ==
    /\ pc[g] = "idle"
    /\ Begin(g, o, NoReading)
    /\ ret' = [ret EXCEPT ![g] = NoResult]
    /\ pc' = [pc EXCEPT ![g] =
                IF check_panics(count[g], epoch[g]) THEN "panicked"
                ELSE IF exhausted(count[g], last_timestamp[g], now(epoch[g]))
                THEN loop ELSE "compare"]
    /\ UNCHANGED <<clock, ticks, id, epoch, count, last_timestamp, newResult, calls,
                   issued, codec>>

\* Generator::generate_block_spin (generator.rs:82-86)
generate_block_spin(g) == EnterLoop(g, "generate_block_spin", "spin")

\* Generator::generate_block_sleep (generator.rs:69-75)
generate_block_sleep(g) == EnterLoop(g, "generate_block_sleep", "sleep")

\* Generator::generate (generator.rs:52-54) delegates to generate_block_spin.
generate(g) == EnterLoop(g, "generate", "spin")

\* One more evaluation of the loop condition: `while ... {}` (spin) or after
\* thread::sleep(100ns) (sleep).
Loop(g) ==
    /\ pc[g] \in {"spin", "sleep"}
    /\ pc' = [pc EXCEPT ![g] =
                IF check_panics(count[g], epoch[g]) THEN "panicked"
                ELSE IF exhausted(count[g], last_timestamp[g], now(epoch[g]))
                THEN @ ELSE "compare"]
    /\ UNCHANGED <<clock, ticks, id, epoch, count, last_timestamp, ret, newResult,
                   call, prev, calls, issued, codec>>

\* generate_unchecked, generator.rs:95-99: sample the clock, advance or reset
\* the counter.
Compare(g) ==
    /\ IF now_panics(epoch[g])
       THEN /\ pc' = [pc EXCEPT ![g] = "panicked"]
            /\ UNCHANGED count
       ELSE /\ count' = [count EXCEPT ![g] =
                           next_count(@, last_timestamp[g], now(epoch[g]))]
            /\ pc' = [pc EXCEPT ![g] = "encode"]
    /\ UNCHANGED <<clock, ticks, id, epoch, last_timestamp, newResult, calls,
                   issued, codec>>

\* Generator::generate_unchecked called by the owner (generator.rs:94-102).
generate_unchecked(g) ==
    /\ pc[g] = "idle"
    /\ Begin(g, "generate_unchecked", reading(g))
    /\ Compare(g)
    /\ ret' = [ret EXCEPT ![g] = NoResult]

\* generate_unchecked reached from try_generate or a blocking operation.
InnerCompare(g) ==
    /\ pc[g] = "compare"
    /\ Compare(g)
    /\ call' = [call EXCEPT ![g].sampled = reading(g)]
    /\ UNCHANGED <<prev, ret>>

\* History: try_generate returns a Crystal to g in millisecond t.
Issue(g, t) ==
    issued' = [issued EXCEPT ![g] =
                 IF @ = Unwatched \/ call[g].op # "try_generate" THEN @
                 ELSE IF @.at = t
                      THEN [at |-> t, n |-> IF @.n < IssuedCap THEN @.n + 1 ELSE @.n]
                      ELSE [at |-> t, n |-> 1]]

\* generate_unchecked, generator.rs:101: sample the clock again and pack.
Encode(g) ==
    /\ pc[g] = "encode"
    /\ IF now_panics(epoch[g])
       THEN /\ pc' = [pc EXCEPT ![g] = "panicked"]
            /\ UNCHANGED <<ret, call, calls, issued>>
       ELSE /\ ret' = [ret EXCEPT ![g] =
                         Ok(from_parts_unchecked(id[g], count[g], now(epoch[g])))]
            /\ pc' = [pc EXCEPT ![g] = "idle"]
            /\ call' = [call EXCEPT ![g].packed = now(epoch[g])]
            /\ Finished(g)
            /\ Issue(g, now(epoch[g]))
    /\ UNCHANGED <<clock, ticks, id, epoch, count, last_timestamp, newResult, prev,
                   codec>>

\* A step of the call in progress.
Step(g) == Loop(g) \/ InnerCompare(g) \/ Encode(g)

\* A new call by the owner of g.
Call(g) ==
    \/ try_generate(g)
    \/ generate(g)
    \/ generate_block_spin(g)
    \/ generate_block_sleep(g)
    \/ generate_unchecked(g)

\* One Generator and the clock; the epoch is the reference point.
Next ==
    \/ Tick
    \/ \E i \in IdInputs : new(1, i, 0)
    \/ Call(1)
    \/ Step(1)

Spec == Init /\ [][Next]_vars


\* The same, with the scheduling the liveness of the blocking operations
\* rests on: the clock keeps advancing and the thread inside a call keeps
\* running (its loop re-samples the clock, generator.rs:70-72, 83).
SpecLive == Spec /\ WF_vars(Tick) /\ WF_vars(Step(1))

\* The four checked operations (generate_unchecked left out).
CheckedCall(g) ==
    \/ try_generate(g)
    \/ generate(g)
    \/ generate_block_spin(g)
    \/ generate_block_sleep(g)

\* Two Generators with the distinct ids 0 and 1 on the same clock, driven
\* independently through the checked operations.  The owner of the second
\* issues at most MaxCallsB calls and the clock ticks at most MaxTicksTwo times.
MaxCallsB == 1
MaxTicksTwo == 1

NextTwo ==
    \/ ticks < MaxTicksTwo /\ Tick
    \/ \E g \in Gens : new(g, g - 1, 0)
    \/ \E g \in Gens : (g = 2 => calls[g] < MaxCallsB) /\ CheckedCall(g)
    \/ \E g \in Gens : Step(g)

SpecTwo == Init /\ [][NextTwo]_vars


\* The epochs callers use: the reference point, a later point still in the
\* past when the Generator is constructed, and a point the clock never reaches.
EpochInputs == {0, ClockStart - 2, ClockStart + MaxTicks + 1}

\* One Generator whose owner chooses the epoch at construction and may assign
\* the field until MaxCallsEpoch calls have finished; the clock ticks at most
\* MaxTicksEpoch times.
MaxCallsEpoch == 1
MaxTicksEpoch == 1

NextEpoch ==
    \/ ticks < MaxTicksEpoch /\ Tick
    \/ \E i \in IdInputs, e \in EpochInputs : new(1, i, e)
    \/ \E e \in EpochInputs : calls[1] < MaxCallsEpoch /\ set_epoch(1, e)
    \/ Call(1)
    \/ Step(1)

SpecEpoch == Init /\ [][NextEpoch]_vars


\* The codec's functions applied to inputs at and around the bounds of the
\* fields.
PartInputs == {0, 42, MaxCounter, MaxCounter + 1, MaxGeneratorId,
               MaxGeneratorId + 1, U16Max}
TimestampInputs == {{}, as_u64(42), TimestampMask, {42}, {63}, U64Positions}
RawInputs == {{}, {0}, {63}, 0..62, U64Positions, from_parts_unchecked(42, 42, as_u64(42))}

genVars == <<clock, ticks, pc, id, epoch, count, last_timestamp, ret, newResult,
             call, prev, calls, issued>>

InitCodec ==
    /\ GenInit
    /\ issued = [g \in Gens |-> Unwatched]
    /\ \E g \in PartInputs, c \in PartInputs, t \in TimestampInputs, b \in RawInputs :
          codec = [CodecIdle EXCEPT !.g = g, !.c = c, !.t = t, !.b = b]

\* Crystal::from_parts(g, c, t)
apply_from_parts ==
    /\ codec.made = NoResult
    /\ codec.cry = NoResult
    /\ LET r == from_parts(codec.g, codec.c, codec.t)
       IN  codec' = [codec EXCEPT !.made = r, !.cry = r]
    /\ UNCHANGED genVars

\* generator(), counter() and timestamp() of the Crystal from_parts returned
apply_parts ==
    /\ codec.made.kind = "Ok"
    /\ codec.parts = NoParts
    /\ codec' = [codec EXCEPT !.parts =
                    [generator |-> generator(codec.made.cry),
                     counter |-> counter(codec.made.cry),
                     timestamp |-> timestamp(codec.made.cry)]]
    /\ UNCHANGED genVars

\* Crystal::from(b) for the raw u64 b
apply_from_u64 ==
    /\ codec.cry = NoResult
    /\ codec' = [codec EXCEPT !.cry = Ok(Crystal_from_u64(codec.b))]
    /\ UNCHANGED genVars

\* i64::from(crystal)
apply_i64_from ==
    /\ codec.cry.kind = "Ok"
    /\ codec.signed = NoI64
    /\ codec' = [codec EXCEPT !.signed = i64_from(codec.cry.cry)]
    /\ UNCHANGED genVars

\* Crystal::from(i) for the i64 i obtained, read back as u64
apply_from_i64 ==
    /\ codec.signed # NoI64
    /\ codec.back = NoResult
    /\ codec' = [codec EXCEPT !.back = Ok(u64_from(Crystal_from_i64(codec.signed)))]
    /\ UNCHANGED genVars

NextCodec ==
    \/ apply_from_parts
    \/ apply_parts
    \/ apply_from_u64
    \/ apply_i64_from
    \/ apply_from_i64

SpecCodec == InitCodec /\ [][NextCodec]_vars


\* One Generator driven through try_generate only, with the Crystals it
\* returns counted per millisecond.
InitTry ==
    /\ GenInit
    /\ issued = [g \in Gens |-> NoIssued]
    /\ codec = CodecIdle

NextTry ==
    \/ Tick
    \/ \E i \in IdInputs : new(1, i, 0)
    \/ try_generate(1)
    \/ InnerCompare(1)
    \/ Encode(1)

SpecTry == InitTry /\ [][NextTry]_vars


\* One Generator and the clock, which reads 2^42 - 1 milliseconds since the
\* epoch in the initial state, the largest reading the timestamp field holds,
\* and ticks past it.
ClockWide == TimestampMask

InitWide ==
    /\ GenInitAt(ClockWide)
    /\ issued = [g \in Gens |-> Unwatched]
    /\ codec = CodecIdle

SpecWide == InitWide /\ [][Next]_vars


\* ----------------------------------------------------------------- claims
\* The last call of g has finished / has returned a Crystal, and no call has
\* started since.
Done(g) == pc[g] = "idle" /\ ret[g].kind # "None"
Returned(g) == pc[g] = "idle" /\ ret[g].kind = "Ok"

\* The last clock reading of the last finished call.
LastReading(g) == IF call[g].packed = NoReading THEN call[g].first ELSE call[g].packed

\* The call in progress or last finished was made with the counter saturated
\* and last_timestamp equal to the clock.
exhaustedAtCall(g) == call[g].count = Saturated /\ call[g].last = call[g].first

CheckedOps == {"try_generate", "generate", "generate_block_spin", "generate_block_sleep"}
BlockingOps == {"generate", "generate_block_spin", "generate_block_sleep"}

\* C1 (as claimed): no two Crystals one Generator returns from its checked
\* operations are equal; stated for the first two calls of a Generator.
C1_NoTwoEqual ==
    \A g \in Gens :
        (/\ Returned(g)
         /\ calls[g] = 2
         /\ call[g].op \in CheckedOps
         /\ prev[g].op \in CheckedOps
         /\ prev[g].ret.kind = "Ok")
        => ret[g].cry # prev[g].ret.cry

\* C2 (as claimed): when generate_unchecked samples a time different from
\* last_timestamp it resets the counter and stores the sampled time in
\* last_timestamp, so that after a call has returned last_timestamp is the
\* timestamp of the returned Crystal.
C2_LastTimestampFollows ==
    \A g \in Gens :
        /\ (pc[g] = "encode" /\ call[g].sampled # call[g].last)
           => (count[g] = 0 /\ last_timestamp[g] = call[g].sampled)
        /\ Returned(g) => last_timestamp[g] = timestamp(ret[g].cry)

\* C3: try_generate returns the exhaustion error exactly when, at the call,
\* the counter is saturated and the clock reads last_timestamp; otherwise it
\* returns the Crystal generate_unchecked computes from the same state and the
\* same readings, with the same state update.
C3_TryGenerate ==
    \A g \in Gens :
        (Done(g) /\ call[g].op = "try_generate") =>
            LET was == exhaustedAtCall(g)
                c1  == IF call[g].sampled = call[g].last
                       THEN (IF call[g].count \in {Saturated, U16Max}
                             THEN 0 ELSE call[g].count + 1)
                       ELSE 0
            IN  /\ (ret[g] = Err("GeneratorExhausted")) <=> was
                /\ ~was =>
                     /\ ret[g] = Ok(from_parts_unchecked(id[g], c1, call[g].packed))
                     /\ count[g] = c1
                     /\ last_timestamp[g] = call[g].last

\* C3 witness: a try_generate has failed with the exhaustion error.
C3_Witness ==
    /\ Done(1)
    /\ call[1].op = "try_generate"
    /\ ret[1] = Err("GeneratorExhausted")

\* C4 (as claimed): the pair (id, counter) handed to the unchecked encoder is
\* one the checked encoder accepts, and a returned Crystal decodes to the
\* Generator's id and counter.
C4_WidthsAgree ==
    \A g \in Gens :
        /\ pc[g] = "encode" => from_parts(id[g], count[g], now(epoch[g])).kind = "Ok"
        /\ Returned(g) =>
             /\ generator(ret[g].cry) = id[g]
             /\ counter(ret[g].cry) = count[g]

\* C5 (as claimed): Crystals returned by two Generators with distinct ids are
\* never equal; stated for the latest Crystal of each.
C5_DistinctProducers ==
    \A g, h \in Gens :
        (g # h /\ Returned(g) /\ Returned(h) /\ id[g] # id[h])
        => ret[g].cry # ret[h].cry

\* C6 (as claimed): on a fresh Generator the first try_generate returns
\* sequence 0, a second one in the same millisecond returns sequence 1, and a
\* try_generate after the millisecond has advanced returns sequence 0 with a
\* larger timestamp.
C6_FreshGenerator ==
    \A g \in Gens :
        (Done(g) /\ call[g].op = "try_generate") =>
            /\ calls[g] = 1 => (ret[g].kind = "Ok" /\ counter(ret[g].cry) = 0)
            /\ (calls[g] = 2 /\ prev[g].op = "try_generate"
                   /\ prev[g].first = LastReading(g))
               => (ret[g].kind = "Ok" /\ counter(ret[g].cry) = 1)
            /\ (calls[g] >= 2 /\ prev[g].ret.kind = "Ok"
                   /\ call[g].first # prev[g].last)
               => /\ ret[g].kind = "Ok"
                  /\ counter(ret[g].cry) = 0
                  /\ ULess(timestamp(prev[g].ret.cry), timestamp(ret[g].cry))

\* C7: called with the counter saturated and last_timestamp the current
\* millisecond, try_generate fails with the exhaustion error and the other
\* operations return a Crystal whose sequence field is 0.
C7_Exhausted ==
    \A g \in Gens :
        (Done(g) /\ exhaustedAtCall(g)) =>
            /\ call[g].op = "try_generate" => ret[g] = Err("GeneratorExhausted")
            /\ call[g].op # "try_generate" =>
                 (ret[g].kind = "Ok" /\ counter(ret[g].cry) = 0)

\* C7 witness: a blocking call made in the exhausted state has returned.
C7_Witness ==
    /\ Done(1)
    /\ exhaustedAtCall(1)
    /\ call[1].op = "generate_block_sleep"

\* C8: under fair clock ticks every blocking call, once started, returns a
\* Crystal.
C8_BlockingTerminates ==
    (pc[1] \in {"spin", "sleep", "compare", "encode"} /\ call[1].op \in BlockingOps)
    ~> (Returned(1) /\ call[1].op \in BlockingOps)

\* C8 witness: a blocking call is waiting in its loop.
C8_Witness == pc[1] \in {"spin", "sleep"} /\ call[1].op = "generate"

\* C9 (as claimed): successive Crystals of one Generator are non-decreasing
\* as unsigned 64-bit values; stated for calls during which the clock does not
\* tick.
C9_CrystalsSorted ==
    \A g \in Gens :
        (/\ Returned(g)
         /\ prev[g].ret.kind = "Ok"
         /\ prev[g].first = prev[g].last
         /\ call[g].first = LastReading(g))
        => ULeq(prev[g].ret.cry, ret[g].cry)

\* C9 (amended): the timestamp fields of successive Crystals of one
\* Generator are non-decreasing.
C9_TimestampsSorted ==
    \A g \in Gens :
        (Returned(g) /\ prev[g].ret.kind = "Ok")
        => ULeq(timestamp(prev[g].ret.cry), timestamp(ret[g].cry))

\* C9 witness: a Crystal with a larger timestamp that compares below its
\* predecessor.
C9_Witness ==
    /\ Returned(1)
    /\ prev[1].ret.kind = "Ok"
    /\ ULess(timestamp(prev[1].ret.cry), timestamp(ret[1].cry))
    /\ ULess(ret[1].cry, prev[1].ret.cry)

\* C10 (as claimed): when generate_unchecked samples a time equal to
\* last_timestamp it advances the counter by one, wrapping to 0 only from the
\* maximum, leaves last_timestamp alone and returns a Crystal whose sequence
\* field is the new counter.
C10_Advance ==
    \A g \in Gens :
        (Returned(g) /\ call[g].sampled = call[g].last) =>
            /\ count[g] = (IF call[g].count \in {Saturated, U16Max}
                           THEN 0 ELSE call[g].count + 1)
            /\ last_timestamp[g] = call[g].last
            /\ counter(ret[g].cry) = count[g]

\* C11 (as claimed): generate_unchecked returns a Crystal from every state of
\* the Generator: a call of it is never aborted, never waits and never ends
\* in an error.
C11_Total ==
    \A g \in Gens :
        call[g].op = "generate_unchecked" =>
            /\ pc[g] \in {"encode", "idle"}
            /\ pc[g] = "idle" => ret[g].kind = "Ok"

\* x + n on 64 bits, for a small n.
RECURSIVE AddN(_, _)
AddN(bits, n) == IF n = 0 THEN bits ELSE AddN(Inc(bits), n - 1)

\* C12: Generator::new returns its error exactly for an id above 0x3FFF; when
\* it returns a Generator, that Generator holds the id and the epoch passed,
\* its counter is the all-ones u16, which one increment wraps to 0, and
\* last_timestamp is the reading of the clock at construction.
C12_New ==
    [][\A g \in Gens :
          (pc[g] = "none" /\ newResult'[g] # newResult[g]) =>
              LET r == newResult'[g]
              IN  /\ (r.res = "GeneratorIdOutOfBounds") <=> (r.id > MaxGeneratorId)
                  /\ r.res # "Ok" => pc'[g] = "none"
                  /\ r.res = "Ok" =>
                       /\ pc'[g] = "idle"
                       /\ id'[g] = r.id
                       /\ epoch'[g] = r.epoch
                       /\ count'[g] = U16Max
                       /\ (count'[g] + 1) % (U16Max + 1) = 0
                       /\ AddN(last_timestamp'[g], r.epoch) = clock]_vars

\* C12 witness: a Generator just constructed with the largest id and an epoch
\* after the reference point.
C12_Witness ==
    /\ pc[1] = "idle"
    /\ call[1] = NoCall
    /\ newResult[1] = [res |-> "Ok", id |-> MaxGeneratorId, epoch |-> ClockStart - 2]
    /\ epoch[1] = ClockStart - 2
    /\ last_timestamp[1] = as_u64(2)

ValidTriple ==
    /\ codec.g <= MaxGeneratorId
    /\ codec.c <= MaxCounter
    /\ ULeq(codec.t, TimestampMask)

\* C14: for a triple within the bounds from_parts returns a Crystal, and
\* generator(), counter() and timestamp() of it are the triple.
C14_RoundTrip ==
    (codec.made # NoResult /\ ValidTriple) =>
        /\ codec.made.kind = "Ok"
        /\ codec.parts # NoParts =>
             codec.parts = [generator |-> codec.g, counter |-> codec.c,
                            timestamp |-> codec.t]

\* C14 witness: a Crystal of the largest id, with counter and timestamp in
\* range, has been taken apart.
C14_Witness ==
    /\ codec.parts # NoParts
    /\ codec.g = MaxGeneratorId
    /\ codec.c = 42
    /\ codec.t = as_u64(42)

\* C15: from_parts returns an error exactly when a part is above its bound,
\* and the error names the first such part in the order generator, counter,
\* timestamp; a part at its bound is accepted.
C15_Bounds ==
    codec.made # NoResult =>
        /\ (codec.made.kind = "Err") <=> ~ValidTriple
        /\ codec.made.kind = "Err" =>
             codec.made.err =
                IF codec.g > MaxGeneratorId THEN "PartOutOfBounds(GeneratorId)"
                ELSE IF codec.c > MaxCounter THEN "PartOutOfBounds(Counter)"
                ELSE "PartOutOfBounds(Timestamp)"
        /\ (codec.g = MaxGeneratorId /\ codec.c = MaxCounter /\ codec.t = TimestampMask)
           => codec.made.kind = "Ok"

\* C15 witness: with the generator and the counter both out of range the
\* error names the generator.
C15_Witness ==
    /\ codec.made = Err("PartOutOfBounds(GeneratorId)")
    /\ codec.c = MaxCounter + 1
    /\ codec.t = U64Positions

\* The number a set of bits stands for.
RECURSIVE ValueOf(_)
ValueOf(bits) ==
    IF bits = {} THEN 0
    ELSE LET m == CHOOSE x \in bits : \A y \in bits : y <= x
         IN  Pow2(m) + ValueOf(bits \ {m})

\* C16: the Crystal from_parts(g, c, t) returns is g * 2^50 + c * 2^42 + t:
\* above bit 42 it is g * 2^8 + c and below it is t; the all-zero triple
\* gives 0 and the triple of the three bounds gives all ones.
C16_Layout ==
    codec.made.kind = "Ok" =>
        /\ ValueOf(Shr(codec.made.cry, 42)) = codec.g * Pow2(8) + codec.c
        /\ {b \in codec.made.cry : b < 42} = codec.t
        /\ (codec.g = 0 /\ codec.c = 0 /\ codec.t = {}) => codec.made.cry = {}
        /\ (codec.g = MaxGeneratorId /\ codec.c = MaxCounter /\ codec.t = TimestampMask)
           => codec.made.cry = 0..63

\* C16 witness: the Crystal of the three bounds.
C16_Witness ==
    /\ codec.made.kind = "Ok"
    /\ codec.g = MaxGeneratorId
    /\ codec.c = MaxCounter
    /\ codec.t = TimestampMask

\* C17: every Crystal converts to an i64 and back to the same raw value; the
\* i64 is negative exactly when bit 63 is set; the Crystal of the all-zero
\* triple converts to 0 and the Crystal of the three bounds to -1.
C17_I64 ==
    /\ codec.signed # NoI64 =>
         /\ codec.signed.neg <=> 63 \in codec.cry.cry
         /\ codec.cry.cry = {} => codec.signed = [neg |-> FALSE, mag |-> {}]
         /\ codec.cry.cry = 0..63 => codec.signed = [neg |-> TRUE, mag |-> {0}]
         /\ (codec.made.kind = "Ok" /\ codec.g = 0 /\ codec.c = 0 /\ codec.t = {})
            => codec.signed = [neg |-> FALSE, mag |-> {}]
         /\ (codec.made.kind = "Ok" /\ codec.g = MaxGeneratorId
                /\ codec.c = MaxCounter /\ codec.t = TimestampMask)
            => codec.signed = [neg |-> TRUE, mag |-> {0}]
    /\ codec.back # NoResult => codec.back = Ok(codec.cry.cry)

\* C17 witness: the Crystal of the three bounds has gone to -1 and back.
C17_Witness ==
    /\ codec.made.kind = "Ok"
    /\ codec.cry.cry = 0..63
    /\ codec.signed = [neg |-> TRUE, mag |-> {0}]
    /\ codec.back # NoResult

\* C18 (as claimed): in one millisecond try_generate returns at most 256
\* Crystals to a Generator, so that a try_generate made once 256 have been
\* returned in the millisecond fails.
C18_Capacity ==
    \A g \in Gens : issued[g].n <= MaxCounter + 1

\* C19 (as claimed): a generation call acts on one reading of the clock: the
\* timestamp it packs is the reading generate_unchecked compared with
\* last_timestamp, also when the clock ticks during the call.
C19_SingleReading ==
    \A g \in Gens :
        Returned(g) => call[g].packed = call[g].sampled

\* C20: a blocking operation waits only if called with the counter saturated
\* and last_timestamp the current millisecond; then it leaves its loop only
\* once the clock reads later than last_timestamp, and the Crystal it returns
\* has a timestamp after the last_timestamp seen at entry.
C20_Blocking ==
    \A g \in Gens :
        call[g].op \in BlockingOps =>
            /\ pc[g] \in {"spin", "sleep"} => exhaustedAtCall(g)
            /\ (exhaustedAtCall(g) /\ pc[g] \in {"compare", "encode"})
               => ULess(call[g].last, now(epoch[g]))
            /\ (exhaustedAtCall(g) /\ Returned(g))
               => ULess(call[g].last, timestamp(ret[g].cry))

\* C20 witness: a blocking call made in the exhausted state has returned a
\* Crystal of a later millisecond.
C20_Witness ==
    /\ Returned(1)
    /\ exhaustedAtCall(1)
    /\ call[1].op = "generate_block_spin"
    /\ ULess(call[1].last, timestamp(ret[1].cry))

\* C21: a try_generate that fails with the exhaustion error leaves id,
\* epoch, count and last_timestamp as they were, and a try_generate called
\* once the clock has advanced past the millisecond of the failure returns a
\* Crystal with sequence 0.
C21_FailThenRetry ==
    /\ [][\A g \in Gens :
             (/\ pc[g] = "idle"
              /\ call'[g] # call[g]
              /\ call'[g].op = "try_generate"
              /\ ret'[g] = Err("GeneratorExhausted"))
             => /\ id'[g] = id[g]
                /\ epoch'[g] = epoch[g]
                /\ count'[g] = count[g]
                /\ last_timestamp'[g] = last_timestamp[g]]_vars
    /\ [](\A g \in Gens :
             (/\ Done(g)
              /\ call[g].op = "try_generate"
              /\ prev[g].ret = Err("GeneratorExhausted")
              /\ ULess(prev[g].last, call[g].first))
             => /\ ret[g].kind = "Ok"
                /\ counter(ret[g].cry) = 0
                /\ count[g] = 0)

\* C21 witness: a try_generate has failed, the clock has advanced and the
\* next try_generate has returned a Crystal.
C21_Witness ==
    /\ Done(1)
    /\ call[1].op = "try_generate"
    /\ prev[1].ret = Err("GeneratorExhausted")
    /\ ULess(prev[1].last, call[1].first)
    /\ ret[1].kind = "Ok"

\* C22 (as claimed): the timestamp a Generator hands to the unchecked
\* encoder is at most 2^42 - 1, and the timestamp field of a returned Crystal
\* is the clock reading that was packed.
C22_NoOverflow ==
    \A g \in Gens :
        Returned(g) =>
            /\ ULeq(call[g].packed, TimestampMask)
            /\ timestamp(ret[g].cry) = call[g].packed

====
